---- MODULE Spec2Model ----
(***************************************************************************)
(* A model of zulip_archive's synchronisation engine, lib/populate.py:     *)
(* the paginated fetcher (request_all, safe_request), the partitioner      *)
(* (separate_results) and the two orchestrators (populate_all,             *)
(* populate_incremental), run against a remote Zulip server whose message  *)
(* list is append-only, and a storage root that holds stream_index.json    *)
(* and one JSON file per topic.                                            *)
(*                                                                         *)
(* Strings the code computes with (stream and topic names, file names)     *)
(* are sequences of ASCII codes, so that the sanitising functions of       *)
(* lib/common.py are computed and not assumed.  A whole-file write         *)
(* (open_outfile, json.dump, close) is one step: the storage layer is      *)
(* taken to replace a file atomically.                                     *)
(***************************************************************************)
EXTENDS Integers, Sequences, FiniteSets, TLC

(***************************************************************************)
(* Bounds of the model.                                                    *)
(***************************************************************************)
\* The remote holds at most this many messages.
MaxMsgs == 3
\* The remote of the specification with aborts holds at most this many.
MaxMsgsAbort == 2
\* At most this many runs are aborted (remote failure or external kill).
MaxAborts == 2
\* The rate-limit responses of one call are counted up to this number.
MaxRetries == 1
\* The lists given to separate_results alone have at most this many
\* messages, with ids up to this number.
MaxLen == 3
\* The remote of the specification with changing streams holds at most
\* this many messages.
MaxMsgsStreams == 2
\* The remote of the specification with fairness holds at most this many.
MaxMsgsLive == 2
\* The remote of the specification with two runs at a time holds at most
\* this many.
MaxMsgsRace == 1

(***************************************************************************)
(* Program constants.                                                      *)
(***************************************************************************)
\* request['num_after'] = 1000: the page size asked of the remote.
num_after == 1000

\* The runs of the orchestrator; Spec executes run 1 only.
Runs == {1, 2}

(***************************************************************************)
(* Strings as sequences of ASCII codes.                                    *)
(***************************************************************************)
\* "a", "b", "x": stream names; "A", "B": topic names; "*": the wildcard.
NameA == <<97>>
NameB == <<98>>
NameX == <<120>>
\* "c": the name stream 1 is renamed to.
NameC == <<99>>
TopicA == <<65>>
TopicB == <<66, 33>>
Star == <<42>>
\* "-" and ".json"
Dash == <<45>>
DotJson == <<46, 106, 115, 111, 110>>

\* str.isalnum on an ASCII character
IsAlnum(c) ==
    \/ (48 <= c /\ c <= 57)
    \/ (65 <= c /\ c <= 90)
    \/ (97 <= c /\ c <= 122)

\* filter(pred, s) on a sequence
RECURSIVE Filter(_, _)
Filter(s, keep) ==
    IF s = <<>> THEN <<>>
    ELSE (IF Head(s) \in keep THEN <<Head(s)>> ELSE <<>>) \o Filter(Tail(s), keep)

\* sanitize: drop the non-ASCII characters, keep the alphanumeric ones
sanitize(s) == Filter(s, {c \in 0..127 : IsAlnum(c)})

\* str(n) for n >= 0, as ASCII digits
RECURSIVE Str(_)
Str(n) == IF n < 10 THEN <<48 + n>> ELSE Str(n \div 10) \o <<48 + (n % 10)>>

\* s.zfill(w)
RECURSIVE Zfill(_, _)
Zfill(s, w) == IF Len(s) >= w THEN s ELSE Zfill(<<48>> \o s, w)

\* The two sums of zlib's adler32 over the bytes of s: <<a, b>>.
RECURSIVE AdlerSums(_, _, _)
AdlerSums(s, a, b) ==
    IF s = <<>> THEN <<a, b>>
    ELSE LET a2 == (a + Head(s)) % 65521
         IN  AdlerSums(Tail(s), a2, (b + a2) % 65521)

\* adler32(s) % (10 ** 5), where adler32 = b * 65536 + a; the product is
\* reduced modulo 10 ** 5 in two steps to stay within TLC's integers.
Adler32Mod(s) ==
    LET ab == AdlerSums(s, 1, 0)
    IN  (((((ab[2] * 256) % 100000) * 256) % 100000) + ab[1]) % 100000

\* sanitize_topic: a five-digit hash of the name, then the sanitized name
sanitize_topic(topic_name) ==
    Zfill(Str(Adler32Mod(topic_name)), 5) \o sanitize(topic_name)

\* sanitize_stream: the stream id, a dash, the sanitized name
sanitize_stream(stream_name, stream_id) ==
    Str(stream_id) \o Dash \o sanitize(stream_name)

\* The file of a topic under the storage root: <<directory, file name>>.
TopicPath(s, t) ==
    <<sanitize_stream(s.name, s.stream_id), sanitize_topic(t) \o DotJson>>

(***************************************************************************)
(* Configuration: the eligibility predicate built by stream_validator from *)
(* settings.included_streams = ["*"], settings.excluded_streams = ["x"].   *)
(***************************************************************************)
included_streams == {Star}
excluded_streams == {NameX}

\* validator(stream) of stream_validator
is_valid_stream_name(stream) ==
    IF stream \in excluded_streams THEN FALSE
    ELSE IF Star \in included_streams THEN TRUE
    ELSE stream \in included_streams

(***************************************************************************)
(* Values.                                                                 *)
(***************************************************************************)
EmptyMap == [x \in {} |-> 0]
\* stream_index.json is <<>> when absent and <<document>> when present.
NoFile == <<>>
NoDoc == [streams |-> EmptyMap, time |-> "none"]
\* A narrow without a topic operator.
NoTopic == <<>>
\* datetime.utcfromtimestamp(time.time()).strftime(...): the formatted
\* minute a save happens in.
Clock == {"Nov 05 2026 at 10:00", "Nov 05 2026 at 10:01"}

Range(f) == {f[x] : x \in DOMAIN f}
Last(s) == s[Len(s)]
Min(a, b) == IF a <= b THEN a ELSE b
Max(a, b) == IF a >= b THEN a ELSE b
\* max of a set of naturals, 0 when empty
MaxOf(S) == IF S = {} THEN 0 ELSE CHOOSE x \in S : \A y \in S : y <= x

\* The streams of the server, as get_streams lists them.
StreamA == [stream_id |-> 1, name |-> NameA]
StreamB == [stream_id |-> 2, name |-> NameB]
StreamX == [stream_id |-> 3, name |-> NameX]

VARIABLES
    \* the remote server
    remote,          \* its messages, oldest first; remote[i].id = i
    remote_streams,  \* its public streams
    \* the storage root
    files,           \* topic files: path -> list of messages
    index_file,      \* stream_index.json: <<>> or <<the document>>
    \* one run of the orchestrator, per run
    pc,              \* where the run is
    mode,            \* "all" (populate_all), "inc" (populate_incremental)
    streams,         \* streams = get_streams(client)
    si,              \* position of s in streams
    ind,             \* populate_all: ind
    nind,            \* populate_all: nind, with tpmap as nind.topic_data
    topics,          \* populate_all: the names of topics
    stream_index,    \* populate_incremental: the loaded index document
    nm,              \* populate_incremental: nm = separate_results(new_msgs)
    ti,              \* position of t in topics, or in the keys of nm
    old,             \* populate_incremental: old
    request,         \* request_all: request (narrow and anchor)
    anchor,          \* request_all: the parameter anchor
    msgs,            \* request_all: msgs
    \* history, read by the properties only
    retries,         \* rate-limit responses of the current fetch, capped
    aborts,          \* aborted runs so far
    start_len,       \* Len(remote) when the run started
    start_files,     \* files when the run started
    last_full,       \* Len(remote) when the run that ended last was a
                     \* completed populate_all the remote did not change
                     \* during, and -1 otherwise
    after_gap,       \* whether the run before this one was an incremental
                     \* run aborted after it had written a topic file
    overlap,         \* whether a run has started while another was under
                     \* way
    last_inc         \* <<n1, n2>> when the run that ended last was a
                     \* completed populate_incremental on a remote of n2
                     \* messages that did not change during it, right
                     \* after a populate_all as of last_full on n1
                     \* messages, and <<-1, -1>> otherwise

vars == <<remote, remote_streams, files, index_file, pc, mode, streams, si,
          ind, nind, topics, stream_index, nm, ti, old, request, anchor, msgs,
          retries, aborts, start_len, start_files, last_full, after_gap,
          overlap, last_inc>>

remoteVars == <<remote, remote_streams>>
diskVars == <<files, index_file>>
allVars == <<ind, nind, topics>>
incVars == <<stream_index, nm, old>>
reqVars == <<request, anchor, msgs>>
histVars == <<aborts, start_len, start_files, last_full, after_gap, overlap,
              last_inc>>

(***************************************************************************)
(* The remote server.                                                      *)
(***************************************************************************)
\* A message as get_messages returns it.
Message(id, stream_id, subject) ==
    [id |-> id, stream_id |-> stream_id, subject |-> subject,
     timestamp |-> 100 * id]

\* What may arrive: stream 1 has two topics, the other streams one.
ArrivalKinds ==
    {<<s.stream_id, t>> : s \in Range(remote_streams), t \in {TopicA, TopicB}}
    \ {<<s.stream_id, TopicB>> : s \in Range(remote_streams) \ {StreamA}}

\* A user posts a message: the server gives it the next id.
Arrive(maxN) ==
    /\ Len(remote) < maxN
    /\ \E k \in ArrivalKinds :
          remote' = Append(remote, Message(Len(remote) + 1, k[1], k[2]))
    /\ UNCHANGED <<remote_streams, diskVars, pc, mode, streams, si, allVars,
                   incVars, ti, reqVars, retries, histVars>>

\* A public stream is created on the server.
CreateStream ==
    /\ StreamB \notin Range(remote_streams)
    /\ remote_streams' = Append(remote_streams, StreamB)
    /\ UNCHANGED <<remote, diskVars, pc, mode, streams, si, allVars, incVars,
                   ti, reqVars, retries, histVars>>

\* A stream is renamed on the server: it keeps its stream_id.
RenameStream ==
    /\ \E i \in 1..Len(remote_streams) :
          /\ remote_streams[i] = StreamA
          /\ remote_streams' = [remote_streams EXCEPT ![i].name = NameC]
    /\ UNCHANGED <<remote, diskVars, pc, mode, streams, si, allVars, incVars,
                   ti, reqVars, retries, histVars>>

\* The name the server knows a stream id by.
StreamIdsNamed(name) ==
    {s.stream_id : s \in {x \in Range(remote_streams) : x.name = name}}

\* get_messages: the messages a narrow matches from the anchor on, oldest
\* first (num_before = 0).
Matching(req) ==
    SelectSeq(remote,
              LAMBDA m : /\ m.stream_id \in StreamIdsNamed(req.stream)
                         /\ (req.topic = NoTopic \/ m.subject = req.topic)
                         /\ m.id >= req.anchor)

\* get_stream_topics: the topics of a stream, the most recently active
\* first, found by walking the messages from the newest.
RECURSIVE TopicsUpTo(_, _, _)
TopicsUpTo(n, stream_id, seen) ==
    IF n = 0 THEN <<>>
    ELSE IF remote[n].stream_id = stream_id /\ remote[n].subject \notin seen
         THEN <<remote[n].subject>>
              \o TopicsUpTo(n - 1, stream_id, seen \cup {remote[n].subject})
         ELSE TopicsUpTo(n - 1, stream_id, seen)

get_stream_topics(stream_id) == TopicsUpTo(Len(remote), stream_id, {})

(***************************************************************************)
(* Helpers of the orchestrators.                                           *)
(***************************************************************************)
Upd(f, r, v) == [f EXCEPT ![r] = v]

\* Mutant: the generator yields every stream.
NextAny(strs, i) == i

\* The generator (s for s in streams if is_valid_stream_name(s['name'])):
\* the position of the next eligible stream from position i on, or
\* Len(strs) + 1.
RECURSIVE NextEligible(_, _)
NextEligible(strs, i) ==
    IF i > Len(strs) THEN i
    ELSE IF is_valid_stream_name(strs[i].name) THEN i
    ELSE NextEligible(strs, i + 1)

\* Mutant: a message of a topic already seen replaces the topic's group.
RECURSIVE SeparateIntoLastWins(_, _)
SeparateIntoLastWins(list, map) ==
    IF list = <<>> THEN map
    ELSE LET m == Head(list)
         IN  IF m.subject \notin DOMAIN map.map
             THEN SeparateIntoLastWins(Tail(list),
                                       [keys |-> Append(map.keys, m.subject),
                                        map |-> (m.subject :> <<m>>) @@ map.map])
             ELSE SeparateIntoLastWins(Tail(list),
                                       [keys |-> map.keys,
                                        map |-> [map.map EXCEPT ![m.subject] =
                                                         <<m>>]])

\* separate_results: the dict of topic name -> messages, as its keys in
\* insertion order and its map.
RECURSIVE SeparateInto(_, _)
SeparateInto(list, map) ==
    IF list = <<>> THEN map
    ELSE LET m == Head(list)
         IN  IF m.subject \notin DOMAIN map.map
             THEN SeparateInto(Tail(list),
                               [keys |-> Append(map.keys, m.subject),
                                map |-> (m.subject :> <<m>>) @@ map.map])
             ELSE SeparateInto(Tail(list),
                               [keys |-> map.keys,
                                map |-> [map.map EXCEPT ![m.subject] =
                                                 Append(@, m)]])

separate_results(list) == SeparateInto(list, [keys |-> <<>>, map |-> EmptyMap])

NoRequest == [stream |-> <<>>, topic |-> NoTopic, anchor |-> 0]
NoDict == [keys |-> <<>>, map |-> EmptyMap]

\* The steps at which the run waits for the remote's answer to a call made
\* through safe_request.
CallPcs == {"all_get_streams", "all_get_topics", "inc_get_streams",
            "get_messages"}
\* The steps of a run that has started and not ended.
ActivePcs == CallPcs \cup {"all_store", "all_save", "inc_load",
                          "inc_partition", "inc_read", "inc_write",
                          "inc_save"}
\* A run that has ended: completed, aborted, or stopped by exit_immediately.
EndPcs == {"done", "aborted", "fatal"}

\* The run ends: its frame is gone.
End(r, outcome) ==
    /\ pc' = Upd(pc, r, outcome)
    /\ streams' = Upd(streams, r, <<>>)
    /\ si' = Upd(si, r, 0)
    /\ ind' = Upd(ind, r, EmptyMap)
    /\ nind' = Upd(nind, r, EmptyMap)
    /\ topics' = Upd(topics, r, <<>>)
    /\ stream_index' = Upd(stream_index, r, NoDoc)
    /\ nm' = Upd(nm, r, NoDict)
    /\ ti' = Upd(ti, r, 0)
    /\ old' = Upd(old, r, <<>>)
    /\ request' = Upd(request, r, NoRequest)
    /\ anchor' = Upd(anchor, r, 0)
    /\ msgs' = Upd(msgs, r, <<>>)
    /\ retries' = Upd(retries, r, 0)
    /\ last_full' = IF /\ outcome = "done"
                       /\ mode[r] = "all"
                       /\ start_len[r] = Len(remote)
                    THEN Len(remote)
                    ELSE -1
    /\ last_inc' = IF /\ outcome = "done"
                      /\ mode[r] = "inc"
                      /\ start_len[r] = Len(remote)
                      /\ last_full >= 0
                   THEN <<last_full, Len(remote)>>
                   ELSE <<-1, -1>>
    /\ UNCHANGED <<mode, start_len, start_files, after_gap, overlap>>

\* request_all(client, request, a) is entered.
EnterRequestAll(r, stream_name, topic_name, a) ==
    /\ request' = Upd(request, r, [stream |-> stream_name,
                                   topic |-> topic_name, anchor |-> a])
    /\ anchor' = Upd(anchor, r, a)
    /\ msgs' = Upd(msgs, r, <<>>)
    /\ pc' = Upd(pc, r, "get_messages")

\* No request_all is in progress.
LeaveRequestAll(r) ==
    /\ request' = Upd(request, r, NoRequest)
    /\ anchor' = Upd(anchor, r, 0)
    /\ msgs' = Upd(msgs, r, <<>>)

\* An uncaught exception ends the run.
Raise(r) ==
    /\ End(r, "aborted")
    /\ UNCHANGED <<remoteVars, diskVars, aborts>>

(***************************************************************************)
(* safe_request and request_all.                                           *)
(***************************************************************************)
\* Mutant: the rate-limit response is taken for the final answer.
RetryGivesUp(r) ==
    /\ retries' = Upd(retries, r, Min(retries[r] + 1, MaxRetries))
    /\ pc' = Upd(pc, r, IF mode[r] = "all" THEN "all_store"
                        ELSE IF mode[r] = "inc" THEN "inc_partition"
                        ELSE "returned")
    /\ UNCHANGED <<request, anchor, msgs>>

\* Mutant: a rate-limit response ends the run.
RetryRaises(r) ==
    /\ retries' = Upd(retries, r, Min(retries[r] + 1, MaxRetries))
    /\ pc' = Upd(pc, r, "aborted")
    /\ UNCHANGED <<request, anchor, msgs>>

\* safe_request, lines 83-86: the response is a rate-limit error; sleep,
\* then issue the same call again.
Retry(r) ==
    /\ retries' = Upd(retries, r, Min(retries[r] + 1, MaxRetries))
    /\ UNCHANGED <<pc, request, anchor, msgs>>

RateLimited(r) ==
    /\ pc[r] \in CallPcs
    /\ Retry(r)
    /\ UNCHANGED <<remoteVars, diskVars, mode, streams, si, allVars, incVars,
                   ti, histVars>>

\* Where request_all returns to.
ReturnPc(r) ==
    IF mode[r] = "all" THEN "all_store"
    ELSE IF mode[r] = "inc" THEN "inc_partition"
    ELSE "returned"

\* The pages the remote may answer a get_messages call with: a prefix of
\* the matching messages, at most num_after long, and found_newest, which
\* is false whenever messages remain.
Pages(req) ==
    LET all == Matching(req)
        n == Len(all)
    IN  IF n = 0 THEN {[messages |-> <<>>, found_newest |-> TRUE]}
        ELSE {[messages |-> SubSeq(all, 1, k), found_newest |-> f] :
                k \in 1..Min(n, num_after), f \in BOOLEAN}
             \ {[messages |-> SubSeq(all, 1, k), found_newest |-> TRUE] :
                  k \in 1..(n - 1)}

\* Mutant: the anchor moves to the page's last message, not past it.
TakePageSameAnchor(r, response) ==
    /\ msgs' = Upd(msgs, r, msgs[r] \o response.messages)
    /\ IF response.found_newest
       THEN /\ pc' = Upd(pc, r, ReturnPc(r))
            /\ UNCHANGED request
       ELSE /\ pc' = pc
            /\ request' = Upd(request, r,
                              [request[r] EXCEPT !.anchor =
                                     Last(response.messages).id])

\* request_all, lines 71-77, one response at a time: add the page to msgs,
\* and either return or move the anchor past the page's last message.
TakePage(r, response) ==
    /\ msgs' = Upd(msgs, r, msgs[r] \o response.messages)
    /\ IF response.found_newest
       THEN /\ pc' = Upd(pc, r, ReturnPc(r))
            /\ UNCHANGED request
       ELSE /\ pc' = pc
            /\ request' = Upd(request, r,
                              [request[r] EXCEPT !.anchor =
                                     Last(response.messages).id + 1])

GetMessages(r) ==
    /\ pc[r] = "get_messages"
    /\ \E response \in Pages(request[r]) : TakePage(r, response)
    /\ UNCHANGED <<remoteVars, diskVars, mode, streams, si, allVars, incVars,
                   ti, anchor, retries, histVars>>

(***************************************************************************)
(* populate_all.                                                           *)
(***************************************************************************)
\* History: run r was an incremental run, and was aborted after it had
\* written a topic file.
AbortedAfterWrite(r) ==
    pc[r] = "aborted" /\ mode[r] = "inc" /\ files # start_files[r]

\* History: another run is under way.
OthersActive(r) == \E r2 \in Runs \ {r} : pc[r2] \in ActivePcs

\* A run may start when the previous one has ended.
StartAll(r) ==
    /\ pc[r] \in EndPcs \cup {"idle"}
    /\ pc' = Upd(pc, r, "all_get_streams")
    /\ mode' = Upd(mode, r, "all")
    /\ start_len' = Upd(start_len, r, Len(remote))
    /\ start_files' = Upd(start_files, r, files)
    /\ after_gap' = AbortedAfterWrite(r)
    /\ overlap' = (overlap \/ OthersActive(r))
    /\ UNCHANGED <<remoteVars, diskVars, streams, si, allVars, incVars, ti,
                   reqVars, retries, aborts, last_full, last_inc>>

\* Lines 127-128 and the loop of line 107: the stream is recorded in ind,
\* and the run goes to the next eligible stream or to the save.
AllStreamDone(r, ni) ==
    LET s == streams[r][si[r]]
        j == NextEligible(streams[r], si[r] + 1)
    IN  /\ ind' = Upd(ind, r, (s.name :> ni) @@ ind[r])
        /\ si' = Upd(si, r, j)
        /\ pc' = Upd(pc, r, IF j > Len(streams[r]) THEN "all_save"
                            ELSE "all_get_topics")
        /\ ti' = Upd(ti, r, 0)
        /\ topics' = Upd(topics, r, <<>>)
        /\ nind' = Upd(nind, r, EmptyMap)
        /\ LeaveRequestAll(r)

\* Lines 105-107: the streams are listed, ind is empty.
AllGetStreams(r) ==
    /\ pc[r] = "all_get_streams"
    /\ LET j == NextEligible(remote_streams, 1)
       IN  /\ streams' = Upd(streams, r, remote_streams)
           /\ si' = Upd(si, r, j)
           /\ pc' = Upd(pc, r, IF j > Len(remote_streams) THEN "all_save"
                               ELSE "all_get_topics")
    /\ retries' = Upd(retries, r, 0)
    /\ UNCHANGED <<remoteVars, diskVars, mode, allVars, incVars, ti, reqVars,
                   histVars>>

\* Lines 109-119: the topics of the stream are listed, and the first one
\* is requested.
AllGetTopics(r) ==
    /\ pc[r] = "all_get_topics"
    /\ LET s == streams[r][si[r]]
           tps == get_stream_topics(s.stream_id)
           ni == [id |-> s.stream_id, latest_id |-> 0, topic_data |-> EmptyMap]
       IN  IF tps = <<>>
           THEN AllStreamDone(r, ni)
           ELSE /\ topics' = Upd(topics, r, tps)
                /\ nind' = Upd(nind, r, ni)
                /\ ti' = Upd(ti, r, 1)
                /\ EnterRequestAll(r, s.name, tps[1], 0)
                /\ UNCHANGED <<ind, si>>
    /\ retries' = Upd(retries, r, 0)
    /\ UNCHANGED <<remoteVars, diskVars, mode, streams, incVars, histVars>>

\* Mutant: the cursor is the last id of the topic fetched last.
AllRecordNoMax(ni, t, m) ==
    [ni EXCEPT !.topic_data = (t :> [size |-> Len(m),
                                     latest_date |-> Last(m).timestamp]) @@ @,
               !.latest_id = Last(m).id]

\* Lines 120-122: the summary of the topic and the cursor of the stream.
AllRecord(ni, t, m) ==
    [ni EXCEPT !.topic_data = (t :> [size |-> Len(m),
                                     latest_date |-> Last(m).timestamp]) @@ @,
               !.latest_id = Max(@, Last(m).id)]

\* Mutant: the fetched messages are appended to the topic's file.
AllWriteAppends(fs, s, t, m) ==
    (TopicPath(s, t) :>
        ((IF TopicPath(s, t) \in DOMAIN fs THEN fs[TopicPath(s, t)] ELSE <<>>)
         \o m)) @@ fs

\* Lines 123-126: the topic's file is written afresh.
AllWrite(fs, s, t, m) == (TopicPath(s, t) :> m) @@ fs

\* Lines 120-126 and the loop of line 112: the fetched topic is recorded
\* and written, and the next topic is requested.  m[-1] of an empty list
\* raises IndexError.
AllStoreTopic(r) ==
    /\ pc[r] = "all_store"
    /\ LET s == streams[r][si[r]]
           t == topics[r][ti[r]]
           m == msgs[r]
       IN  IF m = <<>>
           THEN Raise(r)
           ELSE /\ files' = AllWrite(files, s, t, m)
                /\ IF ti[r] < Len(topics[r])
                   THEN /\ nind' = Upd(nind, r, AllRecord(nind[r], t, m))
                        /\ ti' = Upd(ti, r, ti[r] + 1)
                        /\ EnterRequestAll(r, s.name, topics[r][ti[r] + 1], 0)
                        /\ UNCHANGED <<ind, si, topics>>
                   ELSE AllStreamDone(r, AllRecord(nind[r], t, m))
                /\ retries' = Upd(retries, r, 0)
                /\ UNCHANGED <<remoteVars, index_file, mode, streams, incVars,
                               histVars>>

\* Lines 129-132: the new index is written.
AllSave(r) ==
    /\ pc[r] = "all_save"
    /\ \E now \in Clock :
          index_file' = <<[streams |-> ind[r], time |-> now]>>
    /\ End(r, "done")
    /\ UNCHANGED <<remoteVars, files, aborts>>

(***************************************************************************)
(* populate_incremental.                                                   *)
(***************************************************************************)
StartInc(r) ==
    /\ pc[r] \in EndPcs \cup {"idle"}
    /\ pc' = Upd(pc, r, "inc_get_streams")
    /\ mode' = Upd(mode, r, "inc")
    /\ start_len' = Upd(start_len, r, Len(remote))
    /\ start_files' = Upd(start_files, r, files)
    /\ after_gap' = AbortedAfterWrite(r)
    /\ overlap' = (overlap \/ OthersActive(r))
    /\ UNCHANGED <<remoteVars, diskVars, streams, si, allVars, incVars, ti,
                   reqVars, retries, aborts, last_full, last_inc>>

\* Line 142: the streams are listed.
IncGetStreams(r) ==
    /\ pc[r] = "inc_get_streams"
    /\ streams' = Upd(streams, r, remote_streams)
    /\ pc' = Upd(pc, r, "inc_load")
    /\ retries' = Upd(retries, r, 0)
    /\ UNCHANGED <<remoteVars, diskVars, mode, si, allVars, incVars, ti,
                   reqVars, histVars>>

\* Mutant: the entry of a stream the index knows by its id under another
\* name is moved to the new name.
UpsertById(doc, s) ==
    LET known == {n \in DOMAIN doc.streams : doc.streams[n].id = s.stream_id}
    IN  IF s.name \in DOMAIN doc.streams THEN doc
        ELSE IF known = {}
        THEN [doc EXCEPT !.streams =
                  (s.name :> [id |-> s.stream_id, latest_id |-> 0,
                              topic_data |-> EmptyMap]) @@ @]
        ELSE LET o == CHOOSE n \in known : TRUE
             IN  [doc EXCEPT !.streams =
                      (s.name :> doc.streams[o])
                      @@ [n \in DOMAIN doc.streams \ {o} |-> doc.streams[n]]]

\* Lines 163-164: a stream the index does not know gets a zero cursor.
Upsert(doc, s) ==
    IF s.name \notin DOMAIN doc.streams
    THEN [doc EXCEPT !.streams =
              (s.name :> [id |-> s.stream_id, latest_id |-> 0,
                          topic_data |-> EmptyMap]) @@ @]
    ELSE doc

\* Mutant: the query starts at the cursor itself.
IncAnchorAtCursor(doc, s) == doc.streams[s.name].latest_id

\* Line 167: the anchor of the stream's query.
IncAnchor(doc, s) == doc.streams[s.name].latest_id + 1

\* The loop of line 161 from position i on, and lines 163-167: the next
\* eligible stream is entered and its new messages are requested; when
\* there is none the run goes to the save.  doc is stream_index so far.
IncEnterStream(r, doc, i) ==
    LET j == NextEligible(streams[r], i)
    IN  /\ si' = Upd(si, r, j)
        /\ ti' = Upd(ti, r, 0)
        /\ nm' = Upd(nm, r, NoDict)
        /\ old' = Upd(old, r, <<>>)
        /\ IF j > Len(streams[r])
           THEN /\ stream_index' = Upd(stream_index, r, doc)
                /\ pc' = Upd(pc, r, "inc_save")
                /\ LeaveRequestAll(r)
           ELSE LET s == streams[r][j]
                    doc2 == Upsert(doc, s)
                IN  /\ stream_index' = Upd(stream_index, r, doc2)
                    /\ EnterRequestAll(r, s.name, NoTopic, IncAnchor(doc2, s))

\* Mutant: without an index the run goes on from an empty one.
IncLoadCreates(r) ==
    /\ pc[r] = "inc_load"
    /\ IncEnterStream(r, IF index_file = NoFile THEN NoDoc ELSE index_file[1], 1)
    /\ retries' = Upd(retries, r, 0)
    /\ UNCHANGED <<remoteVars, diskVars, mode, streams, allVars, histVars>>

\* Lines 145-161: without an index the run stops with an error message;
\* otherwise the index is loaded.
IncLoad(r) ==
    /\ pc[r] = "inc_load"
    /\ IF index_file = NoFile
       THEN /\ End(r, "fatal")
            /\ UNCHANGED <<remoteVars, diskVars, aborts>>
       ELSE /\ IncEnterStream(r, index_file[1], 1)
            /\ retries' = Upd(retries, r, 0)
            /\ UNCHANGED <<remoteVars, diskVars, mode, streams, allVars,
                           histVars>>

\* Mutant: the cursor is set whether or not messages were fetched.
AdvanceCursorAlways(doc, s, new_msgs) ==
    [doc EXCEPT !.streams[s.name].latest_id =
                    IF Len(new_msgs) > 0 THEN Last(new_msgs).id ELSE 0]

\* Lines 168-169: the cursor moves to the newest fetched message.
AdvanceCursor(doc, s, new_msgs) ==
    IF Len(new_msgs) > 0
    THEN [doc EXCEPT !.streams[s.name].latest_id = Last(new_msgs).id]
    ELSE doc

\* Lines 168-171: the cursor is advanced and the new messages are
\* partitioned by topic.
IncPartition(r) ==
    /\ pc[r] = "inc_partition"
    /\ LET s == streams[r][si[r]]
           doc == AdvanceCursor(stream_index[r], s, msgs[r])
           d == separate_results(msgs[r])
       IN  IF d.keys = <<>>
           THEN IncEnterStream(r, doc, si[r] + 1)
           ELSE /\ stream_index' = Upd(stream_index, r, doc)
                /\ nm' = Upd(nm, r, d)
                /\ ti' = Upd(ti, r, 1)
                /\ pc' = Upd(pc, r, "inc_read")
                /\ LeaveRequestAll(r)
                /\ UNCHANGED <<si, old>>
    /\ retries' = Upd(retries, r, 0)
    /\ UNCHANGED <<remoteVars, diskVars, mode, streams, allVars, histVars>>

\* Lines 172-178: the topic's file, or [] when there is none.
Load(fs, p) == IF p \in DOMAIN fs THEN fs[p] ELSE <<>>

IncRead(r) ==
    /\ pc[r] = "inc_read"
    /\ LET s == streams[r][si[r]]
           t == nm[r].keys[ti[r]]
       IN  old' = Upd(old, r, Load(files, TopicPath(s, t)))
    /\ pc' = Upd(pc, r, "inc_write")
    /\ UNCHANGED <<remoteVars, diskVars, mode, streams, si, allVars,
                   stream_index, nm, ti, reqVars, retries, histVars>>

\* Mutant: the size recorded is that of the batch, not the new total.
IncRecordDelta(doc, s, t, o, m) ==
    [doc EXCEPT !.streams[s.name].topic_data =
                    (t :> [size |-> Len(m),
                           latest_date |-> Last(m).timestamp]) @@ @]

\* Lines 180-182: the topic's summary in the index.
IncRecord(doc, s, t, o, m) ==
    [doc EXCEPT !.streams[s.name].topic_data =
                    (t :> [size |-> Len(m) + Len(o),
                           latest_date |-> Last(m).timestamp]) @@ @]

\* Mutant: the batch is written before the old contents.
MergeNewFirst(fs, s, t, o, m) == (TopicPath(s, t) :> (m \o o)) @@ fs

\* Mutant: the messages the store already holds are left out of the batch.
MergeSkipsStored(fs, s, t, o, m) ==
    (TopicPath(s, t) :> (o \o SelectSeq(m, LAMBDA x : x \notin Range(o)))) @@ fs

\* Lines 183-186: old + m replaces the topic's file.
Merge(fs, s, t, o, m) == (TopicPath(s, t) :> (o \o m)) @@ fs

\* Lines 179-186 and the loop of line 171.
IncWrite(r) ==
    /\ pc[r] = "inc_write"
    /\ LET s == streams[r][si[r]]
           t == nm[r].keys[ti[r]]
           m == nm[r].map[t]
           doc == IncRecord(stream_index[r], s, t, old[r], m)
       IN  /\ files' = Merge(files, s, t, old[r], m)
           /\ IF ti[r] < Len(nm[r].keys)
              THEN /\ stream_index' = Upd(stream_index, r, doc)
                   /\ ti' = Upd(ti, r, ti[r] + 1)
                   /\ old' = Upd(old, r, <<>>)
                   /\ pc' = Upd(pc, r, "inc_read")
                   /\ UNCHANGED <<si, nm, reqVars>>
              ELSE IncEnterStream(r, doc, si[r] + 1)
    /\ UNCHANGED <<remoteVars, index_file, mode, streams, allVars, retries,
                   histVars>>

\* Lines 187-190: the index is stamped and written.
IncSave(r) ==
    /\ pc[r] = "inc_save"
    /\ \E now \in Clock :
          index_file' = <<[stream_index[r] EXCEPT !.time = now]>>
    /\ End(r, "done")
    /\ UNCHANGED <<remoteVars, files, aborts>>

(***************************************************************************)
(* A run is aborted: a remote call fails with something other than a       *)
(* rate limit, or the process is killed.  Nothing is rolled back.          *)
(***************************************************************************)
\* Mutant: an abort restores the Topic Stores the run found.
AbortRollsBack(r) == files' = start_files[r] /\ UNCHANGED index_file

\* No handler or cleanup in populate_all or populate_incremental: the files
\* stay as the run left them.
AbortDisk(r) == UNCHANGED diskVars

Abort(r) ==
    /\ pc[r] \in ActivePcs
    /\ aborts < MaxAborts
    /\ aborts' = aborts + 1
    /\ End(r, "aborted")
    /\ AbortDisk(r)
    /\ UNCHANGED remoteVars

(***************************************************************************)
(* Specifications.                                                         *)
(***************************************************************************)
InitRun ==
    /\ pc = [r \in Runs |-> "idle"]
    /\ mode = [r \in Runs |-> "none"]
    /\ streams = [r \in Runs |-> <<>>]
    /\ si = [r \in Runs |-> 0]
    /\ ind = [r \in Runs |-> EmptyMap]
    /\ nind = [r \in Runs |-> EmptyMap]
    /\ topics = [r \in Runs |-> <<>>]
    /\ stream_index = [r \in Runs |-> NoDoc]
    /\ nm = [r \in Runs |-> NoDict]
    /\ ti = [r \in Runs |-> 0]
    /\ old = [r \in Runs |-> <<>>]
    /\ request = [r \in Runs |-> NoRequest]
    /\ anchor = [r \in Runs |-> 0]
    /\ msgs = [r \in Runs |-> <<>>]
    /\ retries = [r \in Runs |-> 0]
    /\ aborts = 0
    /\ start_len = [r \in Runs |-> 0]
    /\ start_files = [r \in Runs |-> EmptyMap]
    /\ last_full = -1
    /\ after_gap = FALSE
    /\ overlap = FALSE
    /\ last_inc = <<-1, -1>>

\* A server with three streams and no message, an empty storage root.
Init ==
    /\ remote = <<>>
    /\ remote_streams = <<StreamA, StreamB, StreamX>>
    /\ files = EmptyMap
    /\ index_file = NoFile
    /\ InitRun

RunStep(r) ==
    \/ StartAll(r)
    \/ AllGetStreams(r)
    \/ AllGetTopics(r)
    \/ AllStoreTopic(r)
    \/ AllSave(r)
    \/ StartInc(r)
    \/ IncGetStreams(r)
    \/ IncLoad(r)
    \/ IncPartition(r)
    \/ IncRead(r)
    \/ IncWrite(r)
    \/ IncSave(r)
    \/ GetMessages(r)
    \/ RateLimited(r)

\* Runs of the orchestrator, one at a time and each to its end, while
\* messages arrive and calls are rate-limited.
Next ==
    \/ Arrive(MaxMsgs)
    \/ RunStep(1)

Spec == Init /\ [][Next]_vars

\* The same, where a run may also be aborted at any step.
NextAbort ==
    \/ Arrive(MaxMsgsAbort)
    \/ RunStep(1)
    \/ Abort(1)

SpecAbort == Init /\ [][NextAbort]_vars


\* The steps a started run takes by itself: the next statement, or the
\* answer to a remote call that is not a rate-limit response.
RunProgress(r) ==
    \/ AllGetStreams(r)
    \/ AllGetTopics(r)
    \/ AllStoreTopic(r)
    \/ AllSave(r)
    \/ IncGetStreams(r)
    \/ IncLoad(r)
    \/ IncPartition(r)
    \/ IncRead(r)
    \/ IncWrite(r)
    \/ IncSave(r)
    \/ GetMessages(r)

NextLive ==
    \/ Arrive(MaxMsgsLive)
    \/ RunStep(1)

\* Runs one at a time on a remote that holds finitely many messages: a
\* started run goes on, and the remote does not answer a call with
\* rate-limit responses for ever.
SpecLive == Init /\ [][NextLive]_vars /\ WF_vars(RunProgress(1))

\* The steps of populate_incremental; rate-limit responses, which change
\* nothing but their count, are left out.
IncStep(r) ==
    \/ StartInc(r)
    \/ IncGetStreams(r)
    \/ IncLoad(r)
    \/ IncPartition(r)
    \/ IncRead(r)
    \/ IncWrite(r)
    \/ IncSave(r)
    \/ GetMessages(r)

\* The storage root as a full rebuild leaves it on a server without
\* messages.
InitRace ==
    /\ remote = <<>>
    /\ remote_streams = <<StreamA, StreamB, StreamX>>
    /\ files = EmptyMap
    /\ \E now \in Clock :
          index_file =
              <<[streams |-> [n \in {NameA, NameB} |->
                                [id |-> IF n = NameA THEN 1 ELSE 2,
                                 latest_id |-> 0, topic_data |-> EmptyMap]],
                 time |-> now]>>
    /\ InitRun

\* Incremental runs started at any time against the same storage root,
\* two at a time at most, their steps interleaved.
NextRace ==
    \/ Arrive(MaxMsgsRace)
    \/ IncStep(1)
    \/ IncStep(2)

SpecRace == InitRace /\ [][NextRace]_vars

\* A server with two streams, where a third may be created and the first
\* renamed, between the runs or during one.
InitStreams ==
    /\ remote = <<>>
    /\ remote_streams = <<StreamA, StreamX>>
    /\ files = EmptyMap
    /\ index_file = NoFile
    /\ InitRun

NextStreams ==
    \/ Arrive(MaxMsgsStreams)
    \/ CreateStream
    \/ RenameStream
    \/ RunStep(1)

SpecStreams == InitStreams /\ [][NextStreams]_vars

\* request_all alone, on every dataset, narrow and anchor within the
\* bounds: the remote does not change while the fetch runs.
InitFetch ==
    /\ remote_streams = <<StreamA, StreamB, StreamX>>
    /\ remote \in UNION {{[i \in 1..n |-> Message(i, ks[i][1], ks[i][2])] :
                            ks \in [1..n -> ArrivalKinds]} : n \in 0..MaxMsgs}
    /\ files = EmptyMap
    /\ index_file = NoFile
    /\ pc = [r \in Runs |-> IF r = 1 THEN "get_messages" ELSE "idle"]
    /\ mode = [r \in Runs |-> IF r = 1 THEN "fetch" ELSE "none"]
    /\ \E a \in 0..(MaxMsgs + 1), n \in {NameA, NameB},
          t \in {NoTopic, TopicA, TopicB} :
          /\ anchor = [r \in Runs |-> IF r = 1 THEN a ELSE 0]
          /\ request = [r \in Runs |->
                          IF r = 1
                          THEN [stream |-> n, topic |-> t, anchor |-> a]
                          ELSE NoRequest]
    /\ streams = [r \in Runs |-> <<>>]
    /\ si = [r \in Runs |-> 0]
    /\ ind = [r \in Runs |-> EmptyMap]
    /\ nind = [r \in Runs |-> EmptyMap]
    /\ topics = [r \in Runs |-> <<>>]
    /\ stream_index = [r \in Runs |-> NoDoc]
    /\ nm = [r \in Runs |-> NoDict]
    /\ ti = [r \in Runs |-> 0]
    /\ old = [r \in Runs |-> <<>>]
    /\ msgs = [r \in Runs |-> <<>>]
    /\ retries = [r \in Runs |-> 0]
    /\ aborts = 0
    /\ start_len = [r \in Runs |-> Len(remote)]
    /\ start_files = [r \in Runs |-> EmptyMap]
    /\ last_full = -1
    /\ after_gap = FALSE
    /\ overlap = FALSE
    /\ last_inc = <<-1, -1>>

NextFetch ==
    \/ GetMessages(1)
    \/ RateLimited(1)

SpecFetch == InitFetch /\ [][NextFetch]_vars

\* separate_results alone, on every list of messages within the bounds,
\* whatever their order and with repetitions.
InitSeparate ==
    /\ remote = <<>>
    /\ remote_streams = <<StreamA, StreamB, StreamX>>
    /\ files = EmptyMap
    /\ index_file = NoFile
    /\ pc = [r \in Runs |-> IF r = 1 THEN "separate" ELSE "idle"]
    /\ mode = [r \in Runs |-> IF r = 1 THEN "separate" ELSE "none"]
    /\ \E list \in UNION {[1..n -> {Message(i, 1, t) :
                                       i \in 1..MaxLen, t \in {TopicA, TopicB}}] :
                            n \in 0..MaxLen} :
          msgs = [r \in Runs |-> IF r = 1 THEN list ELSE <<>>]
    /\ streams = [r \in Runs |-> <<>>]
    /\ si = [r \in Runs |-> 0]
    /\ ind = [r \in Runs |-> EmptyMap]
    /\ nind = [r \in Runs |-> EmptyMap]
    /\ topics = [r \in Runs |-> <<>>]
    /\ stream_index = [r \in Runs |-> NoDoc]
    /\ nm = [r \in Runs |-> NoDict]
    /\ ti = [r \in Runs |-> 0]
    /\ old = [r \in Runs |-> <<>>]
    /\ request = [r \in Runs |-> NoRequest]
    /\ anchor = [r \in Runs |-> 0]
    /\ retries = [r \in Runs |-> 0]
    /\ aborts = 0
    /\ start_len = [r \in Runs |-> 0]
    /\ start_files = [r \in Runs |-> EmptyMap]
    /\ last_full = -1
    /\ after_gap = FALSE
    /\ overlap = FALSE
    /\ last_inc = <<-1, -1>>

\* nm = separate_results(list)
Separate(r) ==
    /\ pc[r] = "separate"
    /\ nm' = Upd(nm, r, separate_results(msgs[r]))
    /\ pc' = Upd(pc, r, "separated")
    /\ UNCHANGED <<remoteVars, diskVars, mode, streams, si, allVars,
                   stream_index, old, ti, reqVars, retries, histVars>>

NextSeparate == Separate(1)

SpecSeparate == InitSeparate /\ [][NextSeparate]_vars

(***************************************************************************)
(* Properties.                                                             *)
(***************************************************************************)
\* Whether message m matches the narrow of request req.
InNarrow(m, req) ==
    /\ \E s \in Range(remote_streams) :
          s.name = req.stream /\ s.stream_id = m.stream_id
    /\ (req.topic = NoTopic \/ m.subject = req.topic)

\* The positions of list at which message m stands.
Places(list, m) == {j \in 1..Len(list) : list[j] = m}

StrictlyIncreasing(list) ==
    \A i, j \in 1..Len(list) : i < j => list[i].id < list[j].id

NonDecreasing(list) ==
    \A i, j \in 1..Len(list) : i < j => list[i].id <= list[j].id

\* The list holds exactly the messages of the remote that match the
\* request and have id >= a, each once, in non-decreasing id order.
CompleteFrom(list, req, a) ==
    /\ \A i \in 1..Len(remote) :
          Cardinality(Places(list, remote[i])) =
              IF InNarrow(remote[i], req) /\ remote[i].id >= a THEN 1 ELSE 0
    /\ \A j \in 1..Len(list) : list[j] \in Range(remote)
    /\ NonDecreasing(list)

\* C4 (pagination completeness): however the remote splits the matching
\* messages into pages, request_all returns every matching message with
\* id >= anchor exactly once, in non-decreasing id order, and between two
\* pages the request's anchor is the last returned id plus one.
C4_PaginationComplete ==
    /\ [](pc[1] = "returned" => CompleteFrom(msgs[1], request[1], anchor[1]))
    /\ [][(pc[1] = "get_messages" /\ pc'[1] = "get_messages"
           /\ msgs'[1] # msgs[1])
          => request'[1].anchor = Last(msgs'[1]).id + 1]_vars

\* A fetch of at least two pages has returned at least two messages that
\* were not all of the stream's messages.
C4_Witness ==
    /\ pc[1] = "returned"
    /\ Len(msgs[1]) >= 2
    /\ request[1].anchor > anchor[1] + 1
    /\ Len(msgs[1]) < Len(remote)

\* C5 (rate-limit tolerance): a rate-limit response changes neither the
\* request, nor the messages fetched so far, nor the step the run is at,
\* so the same call is issued again; no fetch ends in an error, and a
\* fetch that was rate-limited returns the complete list all the same.
C5_RateLimitTolerance ==
    /\ [][retries'[1] > retries[1]
          => /\ request'[1] = request[1]
             /\ msgs'[1] = msgs[1]
             /\ pc'[1] = pc[1]]_vars
    /\ [](pc[1] # "aborted")
    /\ []((pc[1] = "returned" /\ retries[1] >= 1)
          => CompleteFrom(msgs[1], request[1], anchor[1]))

\* A rate-limited fetch has returned messages.
C5_Witness ==
    /\ pc[1] = "returned"
    /\ retries[1] >= 1
    /\ Len(msgs[1]) >= 2

\* The topic names of the model.
Topics == {TopicA, TopicB}

\* The eligible streams of the server.
Eligible == {s \in Range(remote_streams) : is_valid_stream_name(s.name)}

\* The messages of stream s and topic t with lo < id <= hi, oldest first.
Between(s, t, lo, hi) ==
    SelectSeq(remote, LAMBDA m : /\ m.stream_id = s.stream_id
                                 /\ m.subject = t
                                 /\ lo < m.id /\ m.id <= hi)

\* The ids of the messages of stream s with lo < id <= hi.
IdsBetween(s, lo, hi) ==
    {remote[i].id : i \in {j \in 1..Len(remote) :
                             /\ remote[j].stream_id = s.stream_id
                             /\ lo < remote[j].id /\ remote[j].id <= hi}}

\* The size the index document doc records for topic t of stream s, 0 when
\* it records none.
SizeIn(doc, s, t) ==
    IF s.name \in DOMAIN doc.streams
       /\ t \in DOMAIN doc.streams[s.name].topic_data
    THEN doc.streams[s.name].topic_data[t].size
    ELSE 0

\* The step that completes an incremental run: the save of the index.
IncSaveStep == pc[1] = "inc_save" /\ pc'[1] = "done"

\* The cursor the index document doc records for stream s, 0 when it
\* records none.
CursorIn(doc, s) ==
    IF s.name \in DOMAIN doc.streams THEN doc.streams[s.name].latest_id ELSE 0

\* What C1 says of stream s, whose cursor was X and is Y after the run.
Converged(s, X, Y) ==
    /\ IdsBetween(s, X, start_len[1]) # {}
       => /\ Y \in IdsBetween(s, X, Len(remote))
          /\ Y >= MaxOf(IdsBetween(s, X, start_len[1]))
    /\ \A t \in Topics :
          /\ Load(files, TopicPath(s, t)) =
                 Load(start_files[1], TopicPath(s, t)) \o Between(s, t, X, Y)
          /\ Between(s, t, X, Y) # <<>>
             => SizeIn(index_file'[1], s, t) =
                    SizeIn(index_file[1], s, t) + Len(Between(s, t, X, Y))

\* C1 (incremental convergence): a completed incremental run that starts
\* from the state completed runs left, with cursor X for an eligible
\* stream (0 for a stream new to the index) whose remote holds new
\* messages (id > X), sets the cursor to the id Y of a message of the
\* stream that is at least the largest new id (and so is that id when no
\* message arrived during the run); it leaves every Topic Store of the
\* stream as its old contents followed by the messages of its own topic
\* with X < id <= Y and nothing else, and sets the size of each topic that
\* got messages to its old size plus their number.
C1_IncrementalConvergence ==
    [][IncSaveStep
       => \A s \in Eligible :
             Converged(s, CursorIn(index_file[1], s),
                       CursorIn(index_file'[1], s))]_vars

\* An incremental run has completed, during which no message arrived, and
\* it appended exactly one message to a store that was not empty.
C1_Witness ==
    /\ pc[1] = "done" /\ mode[1] = "inc"
    /\ start_len[1] = Len(remote)
    /\ \E s \in Eligible, t \in Topics :
          LET before == Load(start_files[1], TopicPath(s, t))
          IN  /\ before # <<>>
              /\ Len(Load(files, TopicPath(s, t))) = Len(before) + 1
              /\ index_file[1].streams[s.name].latest_id = Len(remote)
              /\ index_file[1].streams[s.name].topic_data[t].size
                     = Len(before) + 1

\* C2 (Topic Store invariant): when every run so far has completed, every
\* Topic Store is strictly increasing by id, so no two of its entries share
\* an id.
C2_StoresStrictlyIncreasing ==
    \A p \in DOMAIN files : StrictlyIncreasing(files[p])

\* A completed incremental run has extended a store that held messages.
C2_Witness ==
    /\ pc[1] = "done" /\ mode[1] = "inc"
    /\ \E p \in DOMAIN start_files[1] :
          /\ Len(start_files[1][p]) >= 1
          /\ Len(files[p]) > Len(start_files[1][p])

\* The stream of the server with this id.
StreamOf(stream_id) ==
    CHOOSE s \in Range(remote_streams) : s.stream_id = stream_id

\* C3 (no loss), as the claim states it: once a run has completed, every
\* message that was in an eligible stream when the run started is in the
\* Topic Store of its stream and topic.
C3_NoLoss ==
    pc[1] = "done"
    => \A i \in 1..start_len[1] :
          StreamOf(remote[i].stream_id) \in Eligible
          => remote[i] \in Range(Load(files,
                                      TopicPath(StreamOf(remote[i].stream_id),
                                                remote[i].subject)))

\* The stream an index entry stands for: its key and its id.
Indexed(doc, name) == [stream_id |-> doc.streams[name].id, name |-> name]

\* The summary of topic t of stream name in doc agrees with the topic's
\* persisted store.
SummaryAgrees(doc, name, t) ==
    LET store == Load(files, TopicPath(Indexed(doc, name), t))
        summary == doc.streams[name].topic_data[t]
    IN  /\ summary.size = Len(store)
        /\ store # <<>>
        /\ summary.latest_date = Last(store).timestamp

\* C6 (index/store consistency at end of run), as the claim states it:
\* when a run has completed, also after an aborted one, every topic
\* summary of the persisted index has the size of the topic's persisted
\* store and the timestamp of its last entry.
C6_IndexAgreesWithStores ==
    pc[1] = "done"
    => \A name \in DOMAIN index_file[1].streams :
          \A t \in DOMAIN index_file[1].streams[name].topic_data :
             SummaryAgrees(index_file[1], name, t)

\* The ids of the messages in the persisted stores of a stream's directory.
StoredIds(doc, name) ==
    UNION {{files[p][j].id : j \in 1..Len(files[p])} :
             p \in {q \in DOMAIN files :
                      q[1] = sanitize_stream(name, doc.streams[name].id)}}

\* C7 (cursor meaning): when a run has completed, the cursor of every
\* stream of the persisted index is the highest message id in the
\* persisted Topic Stores of that stream, and 0 when it has none.
C7_CursorIsHighestStored ==
    pc[1] = "done"
    => \A name \in DOMAIN index_file[1].streams :
          index_file[1].streams[name].latest_id
              = MaxOf(StoredIds(index_file[1], name))

\* A run has completed after an aborted one, and a cursor is past 1 while
\* another stream of the index has no message.
C7_Witness ==
    /\ pc[1] = "done"
    /\ aborts >= 1
    /\ \E n1, n2 \in DOMAIN index_file[1].streams :
          /\ index_file[1].streams[n1].latest_id >= 2
          /\ index_file[1].streams[n2].latest_id = 0

\* The step that completes a run: the save of the index.
SaveStep == pc[1] \in {"all_save", "inc_save"} /\ pc'[1] = "done"

\* The step that aborts a run.
AbortStep == pc[1] \in ActivePcs /\ pc'[1] = "aborted"

\* C8 (abort leaves the index untouched): only the save that completes a
\* run changes stream_index.json, so after an abort it is the document of
\* the last completed run; and the abort itself changes no file, so the
\* Topic Stores the aborted run wrote keep their new contents.
C8_AbortLeavesIndex ==
    [][/\ (index_file' # index_file => SaveStep)
       /\ (AbortStep => (index_file' = index_file /\ files' = files))]_vars

\* A run was aborted after it had written a Topic Store, with an index on
\* disk.
C8_Witness ==
    /\ pc[1] = "aborted"
    /\ index_file # NoFile
    /\ files # start_files[1]

\* C9 (idempotent full rebuild): when populate_all completes right after a
\* completed populate_all, the remote unchanged since the first started,
\* the Topic Stores are those the first left and the index differs from
\* the one it left in its time field at most.
C9_IdempotentFullRebuild ==
    [][(/\ pc[1] = "all_save" /\ pc'[1] = "done"
        /\ last_full = Len(remote)
        /\ start_len[1] = Len(remote))
       => /\ files' = start_files[1]
          /\ index_file'[1].streams = index_file[1].streams]_vars

\* A second full rebuild in a row has completed on an unchanged remote of
\* three messages, with the stores as it found them.
C9_Witness ==
    /\ pc[1] = "done" /\ mode[1] = "all"
    /\ last_full = Len(remote)
    /\ start_len[1] = Len(remote)
    /\ Len(remote) >= 3
    /\ start_files[1] # EmptyMap
    /\ files = start_files[1]

\* The step of populate_incremental that writes a topic's file.
IncWriteStep == pc[1] = "inc_write" /\ pc'[1] \notin {"inc_write", "aborted"}

\* C10 (merge ordering): the file an incremental run writes for a topic
\* holds the persisted store as it was, [] when there was no file,
\* followed by the topic's batch, and no other file changes.
C10_MergeOrdering ==
    [][IncWriteStep
       => LET s == streams[1][si[1]]
              t == nm[1].keys[ti[1]]
              p == TopicPath(s, t)
          IN  /\ p \in DOMAIN files'
              /\ files'[p] = Load(files, p) \o nm[1].map[t]
              /\ \A q \in DOMAIN files' \ {p} :
                    q \in DOMAIN files /\ files'[q] = files[q]]_vars

\* The run has just merged the batch of its first topic into a store that
\* held messages, and goes on to its second topic.
C10_Witness ==
    /\ pc[1] = "inc_read" /\ ti[1] = 2
    /\ LET s == streams[1][si[1]]
           t == nm[1].keys[1]
           p == TopicPath(s, t)
       IN  /\ Load(start_files[1], p) # <<>>
           /\ Load(files, p) = Load(start_files[1], p) \o nm[1].map[t]

\* The topic names that occur in a list of messages.
SubjectsOf(list) == {list[i].subject : i \in 1..Len(list)}

\* C11 (partitioning correctness): for every list of messages, the keys of
\* separate_results(list) are exactly the topic names that occur in the
\* list, each once; the group of a topic is the subsequence of the list
\* with that topic, in the list's order; and every message of the list is
\* in exactly one group.
C11_PartitioningCorrect ==
    pc[1] = "separated"
    => LET list == msgs[1]
           d == nm[1]
       IN  /\ DOMAIN d.map = SubjectsOf(list)
           /\ Range(d.keys) = SubjectsOf(list)
           /\ Len(d.keys) = Cardinality(SubjectsOf(list))
           /\ \A t \in DOMAIN d.map :
                 d.map[t] = SelectSeq(list, LAMBDA m : m.subject = t)
           /\ \A i \in 1..Len(list) :
                 Cardinality({t \in DOMAIN d.map :
                                list[i] \in Range(d.map[t])}) = 1

\* A list with topics [A, B, A] was partitioned into {A: [msg0, msg2],
\* B: [msg1]}.
C11_Witness ==
    /\ pc[1] = "separated"
    /\ Len(msgs[1]) = 3
    /\ msgs[1][1].subject = TopicA
    /\ msgs[1][2].subject = TopicB
    /\ msgs[1][3].subject = TopicA
    /\ msgs[1][1] # msgs[1][3]
    /\ nm[1].keys = <<TopicA, TopicB>>
    /\ nm[1].map[TopicA] = <<msgs[1][1], msgs[1][3]>>
    /\ nm[1].map[TopicB] = <<msgs[1][2]>>

\* The directories of the streams the eligibility predicate rejects.
RejectedDirs ==
    {sanitize_stream(s.name, s.stream_id) :
       s \in {x \in Range(remote_streams) : ~is_valid_stream_name(x.name)}}

\* The files that a step writes or changes.
Written == {p \in DOMAIN files' : p \notin DOMAIN files \/ files'[p] # files[p]}

\* C12 (eligibility filtering): populate_all lists the topics, queries the
\* messages and writes a Topic Store only for a stream whose name the
\* eligibility predicate accepts, writes no file in the directory of a
\* rejected stream, and saves an index whose keys are all accepted names.
C12_EligibilityFiltering ==
    /\ []((mode[1] = "all"
           /\ pc[1] \in {"all_get_topics", "get_messages", "all_store"})
          => /\ is_valid_stream_name(streams[1][si[1]].name)
             /\ pc[1] = "get_messages"
                => request[1].stream = streams[1][si[1]].name)
    /\ [][(mode[1] = "all" /\ pc[1] \in ActivePcs)
          => \A p \in Written : p[1] \notin RejectedDirs]_vars
    /\ [][(pc[1] = "all_save" /\ pc'[1] = "done")
          => \A name \in DOMAIN index_file'[1].streams :
                is_valid_stream_name(name)]_vars

\* A full rebuild has completed and stored messages while the rejected
\* stream held a message: the index has the two accepted streams only.
C12_Witness ==
    /\ pc[1] = "done" /\ mode[1] = "all"
    /\ \E i \in 1..start_len[1] : remote[i].stream_id = StreamX.stream_id
    /\ files # EmptyMap
    /\ DOMAIN index_file[1].streams = {NameA, NameB}

\* An incremental run is under way and there is no stream_index.json.
MissingIndexRun ==
    mode[1] = "inc" /\ pc[1] \in ActivePcs /\ index_file = NoFile

\* C13 (missing-index precondition): an incremental run started without a
\* stream_index.json lists the streams and then stops in the fatal error
\* state (unless it is killed first): it never issues a message query, and
\* no step of it creates or changes a Topic Store or the index file.  No
\* other run ends in the fatal error state.
C13_MissingIndexFatal ==
    /\ [](MissingIndexRun
          => /\ pc[1] \in {"inc_get_streams", "inc_load"}
             /\ files = start_files[1])
    /\ [][MissingIndexRun
          => /\ files' = files
             /\ index_file' = index_file
             /\ pc'[1] \in {pc[1], "aborted",
                             IF pc[1] = "inc_load" THEN "fatal"
                             ELSE "inc_load"}]_vars
    /\ [][(pc'[1] = "fatal" /\ pc[1] # "fatal")
          => (MissingIndexRun /\ pc[1] = "inc_load")]_vars

\* An incremental run has stopped in the fatal error state on a storage
\* root that holds Topic Stores (of an aborted full rebuild) and no index.
C13_Witness ==
    /\ pc[1] = "fatal"
    /\ index_file = NoFile
    /\ files # EmptyMap
    /\ files = start_files[1]

\* The messages of stream s that the stores held when the run started
\* although their ids are past the stream's persisted cursor, by topic.
StoredAhead(s, t) ==
    {m \in Range(Load(start_files[1], TopicPath(s, t))) :
       m.id > CursorIn(index_file[1], s)}

\* C14 (re-append gap): when an incremental run completes, every message
\* that a Topic Store held at its start with an id past the stream's
\* persisted cursor is in that store at least twice; and the run that
\* follows an incremental run aborted between a merge-save and the index
\* save finds such a message, so a store ends up with the same id twice.
C14_ReappendGap ==
    [][IncSaveStep
       => /\ \A s \in Eligible : \A t \in Topics : \A m \in StoredAhead(s, t) :
                Cardinality(Places(Load(files, TopicPath(s, t)), m)) >= 2
          /\ after_gap
             => \E s \in Eligible : \E t \in Topics : StoredAhead(s, t) # {}]_vars

\* The incremental run that followed an aborted incremental run has
\* completed, and a store holds one message twice in a row.
C14_Witness ==
    /\ pc[1] = "done" /\ mode[1] = "inc"
    /\ after_gap
    /\ \E p \in DOMAIN start_files[1] :
          /\ Len(files[p]) = 2 * Len(start_files[1][p])
          /\ files[p] = start_files[1][p] \o start_files[1][p]

\* The summary doc records for topic t of stream name: <<>> when it
\* records none.
SummaryIn(doc, name, t) ==
    IF name \in DOMAIN doc.streams /\ t \in DOMAIN doc.streams[name].topic_data
    THEN <<doc.streams[name].topic_data[t]>>
    ELSE <<>>

\* What each step of an incremental run leaves alone, stream_index being
\* the document the run saves at its end: a cursor changes only when the
\* fetch of that stream has returned a message, a topic's summary and
\* store only when the run writes the batch of that topic, which holds
\* every fetched message of the topic and so at least one.
IncFrame ==
    /\ [][(mode[1] = "inc" /\ pc[1] \in ActivePcs /\ pc'[1] \in ActivePcs)
          => LET s == streams[1][si[1]]
             IN  /\ \A name \in DOMAIN stream_index[1].streams :
                       stream_index'[1].streams[name].latest_id
                           # stream_index[1].streams[name].latest_id
                       => /\ pc[1] = "inc_partition"
                          /\ name = s.name
                          /\ msgs[1] # <<>>
                 /\ \A name \in DOMAIN stream_index[1].streams : \A t \in Topics :
                       SummaryIn(stream_index'[1], name, t)
                           # SummaryIn(stream_index[1], name, t)
                       => /\ pc[1] = "inc_write"
                          /\ name = s.name
                          /\ t = nm[1].keys[ti[1]]
                 /\ \A p \in Written :
                       /\ pc[1] = "inc_write"
                       /\ p = TopicPath(s, nm[1].keys[ti[1]])
                 /\ pc[1] = "inc_write"
                    => /\ nm[1].map[nm[1].keys[ti[1]]] # <<>>
                       /\ \A m \in Range(nm[1].map[nm[1].keys[ti[1]]]) :
                             m.subject = nm[1].keys[ti[1]]]_vars
    /\ [][IncSaveStep
          => /\ index_file'[1].streams = stream_index[1].streams
             /\ files' = files]_vars

\* No eligible stream holds a message newer than its persisted cursor.
NoNewer ==
    \A s \in Eligible : IdsBetween(s, CursorIn(index_file[1], s), Len(remote)) = {}

\* C15 (frame of an incremental run), as the claim states it: the frame of
\* each step, and a run that completes against a remote with no message
\* newer than any cursor leaves the Topic Stores as they were and changes
\* nothing in the index except its time field.
C15_FrameAsStated ==
    /\ IncFrame
    /\ [][(IncSaveStep /\ NoNewer)
          => /\ files' = start_files[1]
             /\ index_file'[1].streams = index_file[1].streams]_vars

\* The entry of a stream new to the index.
NewEntry(name, doc) ==
    /\ doc.streams[name].latest_id = 0
    /\ doc.streams[name].topic_data = EmptyMap

\* C15 (frame of an incremental run), amended: the frame of each step, and
\* a run that completes against a remote with no message newer than any
\* cursor leaves the Topic Stores and every entry of the index as they
\* were; it changes the time field, and adds an entry with cursor 0 and no
\* topic for each eligible stream that was not in the index.
C15_Frame ==
    /\ IncFrame
    /\ [][(IncSaveStep /\ NoNewer)
          => /\ files' = start_files[1]
             /\ \A name \in DOMAIN index_file[1].streams :
                   /\ name \in DOMAIN index_file'[1].streams
                   /\ index_file'[1].streams[name] = index_file[1].streams[name]
             /\ \A name \in DOMAIN index_file'[1].streams
                              \ DOMAIN index_file[1].streams :
                   NewEntry(name, index_file'[1])]_vars

\* An incremental run has completed with no message newer than any cursor
\* on the remote: the stores that held messages are as they were, and the
\* index has a new entry for the stream created since.
C15_Witness ==
    /\ pc[1] = "done" /\ mode[1] = "inc"
    /\ start_len[1] = Len(remote)
    /\ start_files[1] # EmptyMap
    /\ files = start_files[1]
    /\ NameA \in DOMAIN index_file[1].streams
    /\ index_file[1].streams[NameA].latest_id = Len(remote)
    /\ NameB \in DOMAIN index_file[1].streams
    /\ NewEntry(NameB, index_file[1])

\* A run is under way and has passed, or will pass, its precondition.
RunsOn == pc[1] \in ActivePcs /\ ~MissingIndexRun

\* C16 (run termination): when the remote does not answer with rate-limit
\* responses for ever and holds finitely many messages, every run that
\* passes its precondition reaches its end, and no run is given up; the
\* index is written only by the step that ends a run, after every stream
\* was processed; and a rate-limit response is possible at every remote
\* call whatever the number of those before, and leaves the run where it
\* is.
C16_RunTermination ==
    /\ RunsOn ~> pc[1] = "done"
    /\ [](pc[1] # "aborted")
    /\ [][index_file' # index_file
          => /\ pc[1] \in {"all_save", "inc_save"}
             /\ pc'[1] = "done"
             /\ si[1] > Len(streams[1])]_vars
    /\ [](pc[1] \in CallPcs => ENABLED RateLimited(1))
    /\ [][retries'[1] > retries[1] => pc'[1] = pc[1]]_vars

\* An incremental run has reached its end after it stored every message
\* of the remote.
C16_Witness ==
    /\ pc[1] = "done" /\ mode[1] = "inc"
    /\ Len(remote) = MaxMsgsLive
    /\ files # start_files[1]
    /\ \A name \in DOMAIN index_file[1].streams :
          index_file[1].streams[name].latest_id
              = MaxOf(IdsBetween(Indexed(index_file[1], name), 0, Len(remote)))

\* The names under which the index document doc knows the stream_id of s,
\* other than the name of s.
OldNames(doc, s) ==
    {n \in DOMAIN doc.streams \ {s.name} : doc.streams[n].id = s.stream_id}

\* The eligible streams the run has listed under a name the persisted
\* index does not have, while it has their stream_id under another name.
RenamedSeen ==
    {s \in Range(streams[1]) :
       /\ is_valid_stream_name(s.name)
       /\ s.name \notin DOMAIN index_file[1].streams
       /\ OldNames(index_file[1], s) # {}}

\* The step by which an incremental run issues the query of a stream.
IncQueryStep ==
    /\ mode[1] = "inc"
    /\ pc'[1] = "get_messages"
    /\ pc[1] \in {"inc_load", "inc_partition", "inc_write"}

\* C17 (stream rename): an incremental run that lists a stream under a
\* new name, whose stream_id the index has under the old name, queries
\* the stream from anchor 1 (cursor 0), and saves an index with an entry
\* of that stream_id under the new name beside the entry under the old
\* name, which is as it was, as are the Topic Stores of the old name's
\* directory.
C17_RenameDuplicatesEntry ==
    /\ [][IncQueryStep
          => (streams[1][si'[1]] \in RenamedSeen => anchor'[1] = 1)]_vars
    /\ [][IncSaveStep
          => \A s \in RenamedSeen :
                /\ s.name \in DOMAIN index_file'[1].streams
                /\ index_file'[1].streams[s.name].id = s.stream_id
                /\ \A o \in OldNames(index_file[1], s) :
                      /\ o \in DOMAIN index_file'[1].streams
                      /\ index_file'[1].streams[o] = index_file[1].streams[o]
                      /\ \A q \in DOMAIN start_files[1] :
                            q[1] = sanitize_stream(o, s.stream_id)
                            => files'[q] = start_files[1][q]]_vars

\* After stream 1 was renamed from a to c, an incremental run has
\* completed: the index has the stream under both names, the old entry
\* with its cursor, and its messages are stored in both directories.
C17_Witness ==
    /\ pc[1] = "done" /\ mode[1] = "inc"
    /\ {NameA, NameC} \subseteq DOMAIN index_file[1].streams
    /\ index_file[1].streams[NameA].id = index_file[1].streams[NameC].id
    /\ index_file[1].streams[NameA].latest_id >= 1
    /\ index_file[1].streams[NameC].latest_id
           >= index_file[1].streams[NameA].latest_id
    /\ \E q1, q2 \in DOMAIN files :
          /\ q1[1] = sanitize_stream(NameA, 1)
          /\ q2[1] = sanitize_stream(NameC, 1)
          /\ files[q1][1] = files[q2][1]

\* No run is under way, and every run that was started has completed.
AllCompleted == \A r \in Runs : pc[r] \in {"idle", "done"}

\* A Topic Store holds the same message twice.
StoreTwice ==
    \E p \in DOMAIN files : \E i, j \in 1..Len(files[p]) :
       i < j /\ files[p][i].id = files[p][j].id

\* The persisted index disagrees with the Topic Stores: a cursor is not
\* the highest stored id of its stream, or the size or latest_date of a
\* topic is not that of its store.
IndexDisagrees ==
    \E name \in DOMAIN index_file[1].streams :
       \/ index_file[1].streams[name].latest_id
              # MaxOf(StoredIds(index_file[1], name))
       \/ \E t \in Topics :
             LET store == Load(files, TopicPath(Indexed(index_file[1], name), t))
                 summary == SummaryIn(index_file[1], name, t)
             IN  IF summary = <<>> THEN store # <<>>
                 ELSE \/ store = <<>>
                      \/ summary[1].size # Len(store)
                      \/ summary[1].latest_date # Last(store).timestamp

\* C18 (concurrent runs race): when every started incremental run has
\* completed, a Topic Store holds a message twice or the index disagrees
\* with the stores only if a run was started while another was under way:
\* runs one at a time do not reach such a state, two at a time do.
C18_RaceNeedsOverlap ==
    (AllCompleted /\ (StoreTwice \/ IndexDisagrees)) => overlap

\* Two incremental runs at the same time have both completed, and a Topic
\* Store holds a message twice.
C18_Witness ==
    /\ pc[1] = "done" /\ pc[2] = "done"
    /\ overlap
    /\ StoreTwice

\* C19 (cursor monotonicity): the index a completed incremental run saves
\* keeps every stream of the index it found, with a latest_id that is not
\* smaller; every message query of an incremental run is narrowed to the
\* stream alone and starts at the stream's persisted latest_id plus one
\* (at 1 for a stream new to the index); and every message it fetches has
\* an id above that cursor.
C19_CursorMonotone ==
    /\ [][IncSaveStep
          => \A name \in DOMAIN index_file[1].streams :
                /\ name \in DOMAIN index_file'[1].streams
                /\ index_file'[1].streams[name].latest_id
                       >= index_file[1].streams[name].latest_id]_vars
    /\ [][IncQueryStep
          => LET s == streams[1][si'[1]]
             IN  /\ anchor'[1] = CursorIn(index_file[1], s) + 1
                 /\ request'[1] = [stream |-> s.name, topic |-> NoTopic,
                                   anchor |-> anchor'[1]]]_vars
    /\ []((mode[1] = "inc" /\ pc[1] \in {"get_messages", "inc_partition"})
          => \A m \in Range(msgs[1]) :
                m.id > CursorIn(index_file[1], streams[1][si[1]]))

\* An incremental run has completed that found stream a with a cursor of
\* 1 at least and moved it to the newest message, without fetching again
\* what was stored.
C19_Witness ==
    /\ pc[1] = "done" /\ mode[1] = "inc"
    /\ \E t \in Topics :
          /\ Load(start_files[1], TopicPath(StreamA, t)) # <<>>
          /\ Len(Load(files, TopicPath(StreamA, t)))
                 > Len(Load(start_files[1], TopicPath(StreamA, t)))
    /\ index_file[1].streams[NameA].latest_id = Len(remote)
    /\ Len(remote) >= 2
    /\ \A p \in DOMAIN files : StrictlyIncreasing(files[p])

\* The step that completes a full rebuild on the dataset D2 on which the
\* run before it, an incremental run after a full rebuild on D1, has
\* completed; the remote changed during none of the three.
FullAfterIncStep ==
    /\ pc[1] = "all_save" /\ pc'[1] = "done"
    /\ last_inc[2] = Len(remote)
    /\ start_len[1] = Len(remote)

\* Every topic file is the file of a topic of an eligible stream that
\* has messages: a full rebuild on this remote writes each of them.
AllRewritten ==
    \A p \in DOMAIN files :
       \E s \in Eligible : \E t \in Range(get_stream_topics(s.stream_id)) :
          p = TopicPath(s, t)

\* C20 (incremental update is equivalent to a full rebuild): a full
\* rebuild on D2 writes every Topic Store with the contents that the full
\* rebuild on D1 followed by the incremental run on D2 had left, and saves
\* an index with the same streams, cursors and topic summaries.
C20_IncrementalEqualsFull ==
    [][FullAfterIncStep
       => /\ AllRewritten
          /\ files' = start_files[1]
          /\ index_file'[1].streams = index_file[1].streams]_vars

\* A full rebuild on D2 is about to save its index: it has rewritten the
\* stores and built the index that the full rebuild on a smaller,
\* non-empty D1 and the incremental run on D2 had left.
C20_Witness ==
    /\ pc[1] = "all_save" /\ mode[1] = "all"
    /\ last_inc[1] >= 1
    /\ last_inc[2] > last_inc[1]
    /\ last_inc[2] = Len(remote)
    /\ start_len[1] = Len(remote)
    /\ AllRewritten
    /\ files = start_files[1]
    /\ ind[1] = index_file[1].streams
    /\ \E p \in DOMAIN files : Len(files[p]) >= 2

====
